---- MODULE Spec2Model ----
(***************************************************************************)
(* Delivery-SLA extraction of operation-analytics/src/data_extraction.py:  *)
(* the warehouse query, the timestamp reconciler, the volume features and  *)
(* the Parquet cache of DataExtractor.extract_delivery_data.               *)
(*                                                                         *)
(* Timestamps are integers counted in clock ticks, DayTicks ticks to the   *)
(* calendar day, so that a calendar-date difference (DATE_DIFF over DATE)  *)
(* and an elapsed-time difference (Timedelta.days) are different things.   *)
(* A nullable value is a sequence of length at most one: <<>> is NULL/NaT/ *)
(* NaN, <<v>> is the value v.                                              *)
(*                                                                         *)
(* Also: the Dagster assets _1 .. _5 of bec-dagster/dagster_pipeline.py    *)
(* (SpecPipeline, SpecSummary), the aggregations of SLAAnalyzer in         *)
(* analysis.py (SpecAnalysis) and the k-means binning of the plots of      *)
(* visualization.py (SpecKMeans).                                          *)
(***************************************************************************)
EXTENDS Integers, Sequences, FiniteSets, TLC

VARIABLES
  rec,        \* one row on its way through the fresh path
  rpc,        \* where that row is: "raw", "queried", "adjusted" ("idle": unused)
  warehouse,  \* the rows of the query's join, in the query's order
  cache,      \* the file at cache_path: absent, or a Parquet file
  last,       \* the latest call of extract_delivery_data: arguments and outcome
  ncalls,     \* the number of calls so far, modulo 2
  results,    \* the pipeline run: what each stage _1 .. _4h came to
  nxt,        \* the pipeline run: position in the order of the stages
  summ,       \* the pipeline run: the locals of _5_dbt_summaries
  sla_df,           \* SLAAnalyzer.df: how many rows of each kind it holds
  analysis_results, \* SLAAnalyzer.analysis_results
  acall,            \* the latest call of an SLAAnalyzer method and its outcome
  npoints,          \* k-means binning: the number of non-null values to bin
  centers,          \* k-means binning: kmeans.cluster_centers_, by cluster id
  cluster_map,      \* k-means binning: the label given to each cluster id
  dataset,          \* delete-bq-dataset: the dataset in BigQuery, or none
  dcall,            \* delete-bq-dataset: the latest call of delete_dataset
  raw_tables,       \* migration: the tables of one base name in the raw dataset
  mig               \* migration: the locals of the post-load migration of _1

vars == <<rec, rpc, warehouse, cache, last, ncalls, results, nxt, summ,
          sla_df, analysis_results, acall, npoints, centers, cluster_map,
          dataset, dcall, raw_tables, mig>>

pipeVars == <<results, nxt, summ>>

anaVars == <<sla_df, analysis_results, acall>>

kmVars == <<npoints, centers, cluster_map>>

delVars == <<dataset, dcall>>

migVars == <<raw_tables, mig>>

recVars == <<rec, rpc>>

extractVars == <<warehouse, cache, last, ncalls>>

(* ------------------------------ bounds -------------------------------- *)

DayTicks == 2

MaxTime == 6

MaxRows == 2

MaxLimit == 2

(* --------------------------- nullable values -------------------------- *)

NULL == <<>>

Some(v) == <<v>>

notnull(x) == x # NULL

Times == 0..MaxTime

NullableTimes == {NULL} \cup {Some(t) : t \in Times}

Days(n) == n * DayTicks

(* ------------------- warehouse SQL (BigQuery) functions --------------- *)

\* DATE(ts): the calendar date of a timestamp
DATE(ts) == ts \div DayTicks

\* DATE_DIFF(DATE(a), DATE(b), DAY); NULL when an argument is NULL
DATE_DIFF(a, b) ==
  IF a = NULL \/ b = NULL THEN NULL ELSE Some(DATE(a[1]) - DATE(b[1]))

\* GREATEST(x, 0) and GREATEST(-x, 0); NULL when x is NULL
GREATEST0(x) == IF x = NULL THEN NULL ELSE Some(IF x[1] > 0 THEN x[1] ELSE 0)

Neg(x) == IF x = NULL THEN NULL ELSE Some(0 - x[1])

\* CASE WHEN a > b THEN 1 ELSE 0 END (a NULL comparison is not true)
SqlLateFlag(a, b) == IF a # NULL /\ b # NULL /\ a[1] > b[1] THEN 1 ELSE 0

VeryEarlyMax == -3

OnTimeMax == 0

LateMax == 7

PerformanceCategoryOver3(delta) ==
  IF delta # NULL /\ delta[1] < VeryEarlyMax THEN "very_early"
  ELSE IF delta # NULL /\ delta[1] <= OnTimeMax THEN "on_time"
  ELSE IF delta # NULL /\ delta[1] <= LateMax THEN "late"
  ELSE "very_late"

\* CASE WHEN edd_delta_days <= -3 ... END as performance_category
PerformanceCategory(delta) ==
  IF delta # NULL /\ delta[1] <= VeryEarlyMax THEN "very_early"
  ELSE IF delta # NULL /\ delta[1] <= OnTimeMax THEN "on_time"
  ELSE IF delta # NULL /\ delta[1] <= LateMax THEN "late"
  ELSE "very_late"

PriceVeryLowMax == 30

PriceLowMax == 60

PriceMediumMax == 120

PriceHighMax == 250

\* CASE WHEN price <= 30 ... END as price_bin
PriceBin(price) ==
  IF price # NULL /\ price[1] <= PriceVeryLowMax THEN "Very Low"
  ELSE IF price # NULL /\ price[1] <= PriceLowMax THEN "Low"
  ELSE IF price # NULL /\ price[1] <= PriceMediumMax THEN "Medium"
  ELSE IF price # NULL /\ price[1] <= PriceHighMax THEN "High"
  ELSE "Very High"

\* The columns of the joined tables that the query passes through.
RawCols ==
  {"order_purchase_timestamp", "order_approved_at",
   "order_delivered_carrier_date", "order_delivered_customer_date",
   "order_estimated_delivery_date", "price", "product_length_cm",
   "product_height_cm", "product_width_cm", "distance_km"}

\* WHERE order_delivered_customer_date IS NOT NULL
\*   AND order_estimated_delivery_date IS NOT NULL
\*   AND order_purchase_timestamp >= '2016-01-01'
WhereClause(r) ==
  /\ r.order_delivered_customer_date # NULL
  /\ r.order_estimated_delivery_date # NULL
  /\ r.order_purchase_timestamp # NULL

\* One row of the query's result: the order_timeline columns and the two
\* categorisations of the outer SELECT.
SelectRow(r) ==
  LET delta == DATE_DIFF(r.order_delivered_customer_date,
                         r.order_estimated_delivery_date)
  IN  r @@
      [approval_days |-> DATE_DIFF(r.order_approved_at, r.order_purchase_timestamp),
       handling_days |-> DATE_DIFF(r.order_delivered_carrier_date, r.order_approved_at),
       in_transit_days |-> DATE_DIFF(r.order_delivered_customer_date,
                                     r.order_delivered_carrier_date),
       total_delivery_days |-> DATE_DIFF(r.order_delivered_customer_date,
                                         r.order_purchase_timestamp),
       edd_horizon_days |-> DATE_DIFF(r.order_estimated_delivery_date,
                                      r.order_purchase_timestamp),
       late_to_edd_flag |-> SqlLateFlag(r.order_delivered_customer_date,
                                        r.order_estimated_delivery_date),
       edd_delta_days |-> delta,
       early_days |-> GREATEST0(Neg(delta)),
       days_late_to_edd |-> GREATEST0(delta),
       performance_category |-> PerformanceCategory(delta),
       price_bin |-> PriceBin(r.price)]

QueryCols ==
  RawCols \cup
  {"approval_days", "handling_days", "in_transit_days", "total_delivery_days",
   "edd_horizon_days", "late_to_edd_flag", "edd_delta_days", "early_days",
   "days_late_to_edd", "performance_category", "price_bin"}

(* ---------------------- the timestamp reconciler ---------------------- *)

\* (a - b).dt.days: whole days of the elapsed time, rounded down; NaN when
\* an operand is NaT
TimedeltaDays(a, b) ==
  IF a = NULL \/ b = NULL THEN NULL ELSE Some((a[1] - b[1]) \div DayTicks)

AdjustedCarrierDateMut(row) == row.order_delivered_carrier_date

\* df['adjusted_carrier_date'] = df.apply(lambda row: ...)
AdjustedCarrierDate(row) ==
  IF /\ notnull(row.order_delivered_carrier_date)
     /\ notnull(row.order_delivered_customer_date)
     /\ row.order_delivered_carrier_date[1] > row.order_delivered_customer_date[1]
  THEN row.order_delivered_customer_date
  ELSE row.order_delivered_carrier_date

AdjustedApprovedAtFillsNull(row) ==
  IF /\ notnull(row.order_delivered_carrier_date)
     /\ (row.order_approved_at = NULL
         \/ row.order_approved_at[1] > row.order_delivered_carrier_date[1])
  THEN row.order_delivered_carrier_date
  ELSE row.order_approved_at

\* df['adjusted_approved_at'] = df.apply(lambda row: ...): compares with, and
\* clamps to, the raw order_delivered_carrier_date
AdjustedApprovedAt(row) ==
  IF /\ notnull(row.order_approved_at)
     /\ notnull(row.order_delivered_carrier_date)
     /\ row.order_approved_at[1] > row.order_delivered_carrier_date[1]
  THEN row.order_delivered_carrier_date
  ELSE row.order_approved_at

\* (df[a] > df[b]).astype(int): a comparison with NaT is False
PandasLateFlag(a, b) == IF a # NULL /\ b # NULL /\ a[1] > b[1] THEN 1 ELSE 0

\* adjust_timestamps_and_durations, on one row: two new columns, five
\* columns overwritten, every other column (approval_days, early_days,
\* days_late_to_edd, performance_category, ...) left as the query gave it
AdjustRow(row) ==
  LET carrier == AdjustedCarrierDate(row)
      approved == AdjustedApprovedAt(row)
  IN  [adjusted_carrier_date |-> carrier,
       adjusted_approved_at |-> approved,
       handling_days |-> TimedeltaDays(carrier, approved),
       in_transit_days |-> TimedeltaDays(row.order_delivered_customer_date, carrier),
       total_delivery_days |-> TimedeltaDays(row.order_delivered_customer_date,
                                             row.order_purchase_timestamp),
       late_to_edd_flag |-> PandasLateFlag(row.order_delivered_customer_date,
                                           row.order_estimated_delivery_date),
       edd_delta_days |-> TimedeltaDays(row.order_delivered_customer_date,
                                        row.order_estimated_delivery_date)]
      @@ row

AdjustCols == {"adjusted_carrier_date", "adjusted_approved_at"}

(* ------------------- one record through the pipeline ------------------ *)

\* The attributes of a row other than its timestamps, fixed while the
\* timestamps range over every ordering.
SampleAttrs ==
  [price |-> Some(45), product_length_cm |-> Some(2), product_height_cm |-> Some(3),
   product_width_cm |-> Some(4), distance_km |-> Some(120)]

MkRaw(purchase, approved, carrier, delivered, estimated) ==
  [order_purchase_timestamp |-> purchase,
   order_approved_at |-> approved,
   order_delivered_carrier_date |-> carrier,
   order_delivered_customer_date |-> delivered,
   order_estimated_delivery_date |-> estimated] @@ SampleAttrs

\* The records of the documented scenarios, whose timestamps lie further
\* apart than MaxTime: approval five days and carrier handoff three days
\* after the purchase; delivery 4, 3, 0 days before and 1, 7, 8 days after
\* the estimated date.
ScenarioRows ==
  {MkRaw(Some(0), Some(Days(5)), Some(Days(3)), Some(Days(d)), Some(Days(9))) :
     d \in {2, 4, 6}}
  \cup
  {MkRaw(Some(0), Some(1), Some(2), Some(Days(9 + x)), Some(Days(9))) :
     x \in {-4, -3, 0, 1, 7, 8}}

\* The rows the joined tables can hold: every combination of the five
\* timestamps within MaxTime (approval and carrier handoff nullable, the
\* others required by the WHERE clause), and the scenario records.
RawRows ==
  {MkRaw(Some(p), a, c, Some(d), Some(e)) :
     p \in Times, a \in NullableTimes, c \in NullableTimes,
     d \in Times, e \in Times}
  \cup ScenarioRows

IdleRow == MkRaw(NULL, NULL, NULL, NULL, NULL)

NoCall == [kind |-> "none"]

NoFile == [exists |-> FALSE]

\* read_gbq: the warehouse evaluates the query on the row
RunQuery ==
  /\ rpc = "raw"
  /\ WhereClause(rec)
  /\ rec' = SelectRow(rec)
  /\ rpc' = "queried"
  /\ UNCHANGED <<extractVars, pipeVars, anaVars, kmVars, delVars, migVars>>

\* adjust_timestamps_and_durations on the queried row
AdjustTimestamps ==
  /\ rpc = "queried"
  /\ rec' = AdjustRow(rec)
  /\ rpc' = "adjusted"
  /\ UNCHANGED <<extractVars, pipeVars, anaVars, kmVars, delVars, migVars>>

InitReconcile ==
  /\ rec \in RawRows
  /\ rpc = "raw"
  /\ warehouse = <<>>
  /\ cache = NoFile
  /\ last = NoCall
  /\ ncalls = 0
  /\ results = <<>>
  /\ nxt = 0
  /\ summ = <<>>
  /\ sla_df = <<>>
  /\ analysis_results = <<>>
  /\ acall = NoCall
  /\ npoints = 0
  /\ centers = <<>>
  /\ cluster_map = <<>>
  /\ dataset = <<>>
  /\ dcall = NoCall
  /\ raw_tables = <<>>
  /\ mig = <<>>

NextReconcile == RunQuery \/ AdjustTimestamps

SpecReconcile == InitReconcile /\ [][NextReconcile]_vars

(* ------------------------------ tables -------------------------------- *)

\* A pandas DataFrame: its columns and its rows, each row a record over the
\* columns.
NoTable == [cols |-> {}, rows |-> <<>>]

\* Python truthiness of `limit`: None and 0 are false
Truthy(limit) == limit # NULL /\ limit[1] # 0

\* df.head(n)
PandasHead(df, n) ==
  [df EXCEPT !.rows = SubSeq(df.rows, 1, IF n < Len(df.rows) THEN n ELSE Len(df.rows))]

\* pandas_gbq.read_gbq(query): the rows of the join that pass the WHERE
\* clause, in the query's order, cut by " LIMIT n" when the limit is truthy
ReadGbq(w, limit) ==
  LET hits == SelectSeq(w, WhereClause)
      n == IF Truthy(limit) /\ limit[1] < Len(hits) THEN limit[1] ELSE Len(hits)
  IN  [cols |-> QueryCols, rows |-> [i \in 1..n |-> SelectRow(hits[i])]]

\* adjust_timestamps_and_durations on a table
AdjustTimestampsAndDurations(df) ==
  [cols |-> df.cols \cup AdjustCols,
   rows |-> [i \in 1..Len(df.rows) |-> AdjustRow(df.rows[i])]]

DimensionCols == {"product_length_cm", "product_width_cm", "product_height_cm"}

VolumeCols == {"product_volume_cm3", "volume_density_ratio"}

\* length * width * height, NaN when a dimension is missing; the ratio
\* price / (volume + 1e-6) is kept as the pair <<price, volume>>
VolumeRow(row) ==
  LET volume ==
        IF /\ notnull(row.product_length_cm)
           /\ notnull(row.product_width_cm)
           /\ notnull(row.product_height_cm)
        THEN Some(row.product_length_cm[1] * row.product_width_cm[1]
                  * row.product_height_cm[1])
        ELSE NULL
      ratio ==
        IF notnull(row.price) /\ notnull(volume)
        THEN Some(<<row.price[1], volume[1]>>)
        ELSE NULL
  IN  [product_volume_cm3 |-> volume, volume_density_ratio |-> ratio] @@ row

\* compute_product_volume: an empty table, or one without the dimension
\* columns, is returned as it is
ComputeProductVolume(df) ==
  IF df.rows = <<>> THEN df
  ELSE IF ~(DimensionCols \subseteq df.cols) THEN df
  ELSE [cols |-> df.cols \cup VolumeCols,
        rows |-> [i \in 1..Len(df.rows) |-> VolumeRow(df.rows[i])]]

(* --------------------------- the Parquet cache ------------------------ *)

\* pl.from_pandas(df): a columnar frame, one array per column
FromPandas(df) ==
  [schema |-> df.cols,
   height |-> Len(df.rows),
   data |-> [c \in df.cols |-> [i \in 1..Len(df.rows) |-> df.rows[i][c]]]]

\* pl_df.to_pandas(): back to rows
ToPandas(frame) ==
  [cols |-> frame.schema,
   rows |-> [i \in 1..frame.height |-> [c \in frame.schema |-> frame.data[c][i]]]]

\* pl_df.write_parquet(cache_path): the file that a completed write leaves
WriteParquet(frame) == [exists |-> TRUE, footer |-> TRUE, frame |-> frame]

\* The file that a write leaves when it fails after creating the file: the
\* data pages written so far and no footer, which no reader accepts.
TruncatedParquet(frame) == [exists |-> TRUE, footer |-> FALSE, frame |-> frame]

ReadParquetMut(file) ==
  [file.frame EXCEPT !.height = IF @ > 0 THEN @ - 1 ELSE 0]

\* pl.read_parquet(cache_path)
ReadParquet(file) == file.frame

UsesCacheNever(use_cache, c, limit) == FALSE

UsesCacheMut(use_cache, c, limit) == use_cache /\ c.exists /\ ~Truthy(limit)

\* if use_cache and cache_path.exists():
UsesCache(use_cache, c, limit) == use_cache /\ c.exists

ShouldSaveNoLimitCheck(use_cache, limit) == use_cache

ShouldSaveAlways(use_cache, limit) == ~Truthy(limit)

\* if use_cache and not limit:
ShouldSave(use_cache, limit) == use_cache /\ ~Truthy(limit)

\* The fresh path up to the table it returns: query, reconcile, volume.
\* (pd.to_datetime leaves the timestamps, which the model already holds as
\* timestamps, as they are.)
FreshTable(w, limit) ==
  ComputeProductVolume(AdjustTimestampsAndDurations(ReadGbq(w, limit)))

\* The cached path up to the table it returns.
CachedTable(file, limit) ==
  LET df0 == ToPandas(ReadParquet(file))
      df1 == IF "product_volume_cm3" \notin df0.cols
             THEN ComputeProductVolume(df0) ELSE df0
  IN  IF Truthy(limit) /\ Len(df1.rows) > limit[1]
      THEN PandasHead(df1, limit[1]) ELSE df1

Limits == {NULL} \cup {Some(n) : n \in 0..MaxLimit}

\* The steps of the fresh path that can raise before the cache is touched.
FreshFaults == {"read_gbq", "adjust_timestamps_and_durations", "compute_product_volume"}

Returned(limit, use_cache, source, df) ==
  [kind |-> "returned", limit |-> limit, use_cache |-> use_cache,
   source |-> source, fault |-> "none", df |-> df]

Raised(limit, use_cache, source, fault) ==
  [kind |-> "raised", limit |-> limit, use_cache |-> use_cache,
   source |-> source, fault |-> fault, df |-> NoTable]

\* extract_delivery_data, cache branch: the file is read and returned
LoadFromCache(limit, use_cache) ==
  /\ UsesCache(use_cache, cache, limit)
  /\ cache.footer
  /\ last' = Returned(limit, use_cache, "cache", CachedTable(cache, limit))
  /\ ncalls' = 1 - ncalls
  /\ UNCHANGED <<warehouse, cache, recVars, pipeVars, anaVars, kmVars, delVars, migVars>>

\* extract_delivery_data, cache branch: read_parquet raises (an unreadable
\* file, an I/O error); the branch is outside the try block and the error
\* reaches the caller
LoadFromCacheFails(limit, use_cache) ==
  /\ UsesCache(use_cache, cache, limit)
  /\ last' = Raised(limit, use_cache, "cache", "read_parquet")
  /\ ncalls' = 1 - ncalls
  /\ UNCHANGED <<warehouse, cache, recVars, pipeVars, anaVars, kmVars, delVars, migVars>>

\* extract_delivery_data, fresh branch, every step succeeding
FreshExtract(limit, use_cache) ==
  /\ ~UsesCache(use_cache, cache, limit)
  /\ LET df == FreshTable(warehouse, limit)
     IN  /\ cache' = IF ShouldSave(use_cache, limit)
                     THEN WriteParquet(FromPandas(df)) ELSE cache
         /\ last' = Returned(limit, use_cache, "warehouse", df)
  /\ ncalls' = 1 - ncalls
  /\ UNCHANGED <<warehouse, recVars, pipeVars, anaVars, kmVars, delVars, migVars>>

\* extract_delivery_data, fresh branch: a step before the save raises; the
\* except clause prints and re-raises
FreshExtractFails(limit, use_cache, fault) ==
  /\ ~UsesCache(use_cache, cache, limit)
  /\ fault \in FreshFaults
  /\ last' = Raised(limit, use_cache, "warehouse", fault)
  /\ ncalls' = 1 - ncalls
  /\ UNCHANGED <<warehouse, cache, recVars, pipeVars, anaVars, kmVars, delVars, migVars>>

\* extract_delivery_data, fresh branch: the save raises, either before the
\* file is created (from_pandas, a missing outputs directory) or while it is
\* being written; the except clause prints and re-raises, removing nothing
SaveFails(limit, use_cache, created) ==
  /\ ~UsesCache(use_cache, cache, limit)
  /\ ShouldSave(use_cache, limit)
  /\ cache' = IF created
              THEN TruncatedParquet(FromPandas(FreshTable(warehouse, limit)))
              ELSE cache
  /\ last' = Raised(limit, use_cache, "warehouse",
                    IF created THEN "write_parquet" ELSE "from_pandas")
  /\ ncalls' = 1 - ncalls
  /\ UNCHANGED <<warehouse, recVars, pipeVars, anaVars, kmVars, delVars, migVars>>

ExtractDeliveryData(limit, use_cache) ==
  \/ LoadFromCache(limit, use_cache)
  \/ LoadFromCacheFails(limit, use_cache)
  \/ FreshExtract(limit, use_cache)
  \/ \E fault \in FreshFaults : FreshExtractFails(limit, use_cache, fault)
  \/ \E created \in BOOLEAN : SaveFails(limit, use_cache, created)

\* The rows the warehouse tables of the extraction model are filled from: a
\* well-ordered one, one whose approval and carrier handoff are out of order
\* and whose product has no dimensions, and an undelivered one that the
\* WHERE clause drops.
SampleRows ==
  {MkRaw(Some(0), Some(1), Some(2), Some(5), Some(4)),
   [MkRaw(Some(2), Some(6), Some(5), Some(3), Some(6))
      EXCEPT !.product_height_cm = NULL, !.distance_km = NULL],
   MkRaw(Some(4), Some(5), NULL, NULL, Some(6))}

\* ORDER BY order_purchase_timestamp DESC
OrderedDesc(w) ==
  \A i \in 1..(Len(w) - 1) :
    w[i].order_purchase_timestamp[1] >= w[i + 1].order_purchase_timestamp[1]

Warehouses ==
  {w \in UNION {[1..n -> SampleRows] : n \in 0..MaxRows} : OrderedDesc(w)}

\* The pipeline upstream rebuilds fact_order_items and the dimensions: the
\* join holds other rows from then on.
WarehouseUpdate ==
  /\ warehouse' \in Warehouses \ {warehouse}
  /\ UNCHANGED <<cache, last, ncalls, recVars, pipeVars, anaVars, kmVars, delVars, migVars>>

InitExtract ==
  /\ rec = IdleRow
  /\ rpc = "idle"
  /\ warehouse \in Warehouses
  /\ cache = NoFile
  /\ last = NoCall
  /\ ncalls = 0
  /\ results = <<>>
  /\ nxt = 0
  /\ summ = <<>>
  /\ sla_df = <<>>
  /\ analysis_results = <<>>
  /\ acall = NoCall
  /\ npoints = 0
  /\ centers = <<>>
  /\ cluster_map = <<>>
  /\ dataset = <<>>
  /\ dcall = NoCall
  /\ raw_tables = <<>>
  /\ mig = <<>>

NextExtract ==
  \/ \E limit \in Limits, use_cache \in BOOLEAN : ExtractDeliveryData(limit, use_cache)
  \/ WarehouseUpdate

SpecExtract == InitExtract /\ [][NextExtract]_vars

(* ------------------- the Dagster pipeline (bec-dagster) --------------- *)

\* the most external-tool faults (non-zero exit, timeout) in one run
MaxFaults == 2

\* the upstream assets of _5_dbt_summaries, in the order of
\* all_function_results, which is also an order Dagster can run them in
StageOrder ==
  << "_1",
     "_2a", "_2b", "_2c", "_2d", "_2e", "_2f", "_2g", "_2h", "_2i",
     "_3a", "_3b", "_3c", "_3d", "_3e", "_3f", "_3g", "_3h", "_3i",
     "_4a", "_4b", "_4c", "_4d", "_4e", "_4f", "_4g", "_4h" >>

Stages == {StageOrder[i] : i \in 1..Len(StageOrder)}

\* the assets a stage (or the summary, _5) depends on: its deps=[...] and
\* its parameters
Deps(s) ==
  CASE s = "_1" -> {}
    [] s \in {"_2a", "_2b", "_2c", "_2d", "_2e", "_2f", "_2g", "_2i"} -> {"_1"}
    [] s = "_2h" -> {"_1", "_2f", "_2g"}
    [] s = "_3a" -> {"_2a", "_2b", "_2g", "_2e", "_2d"}
    [] s = "_3b" -> {"_2c", "_2i"}
    [] s = "_3c" -> {"_2d"}
    [] s = "_3d" -> {"_2e"}
    [] s = "_3e" -> {"_2f"}
    [] s = "_3f" -> {"_2g"}
    [] s = "_3g" -> {"_2h"}
    [] s = "_3h" -> {"_1"}
    [] s = "_3i" -> {"_2b", "_3a", "_3b", "_3c", "_3d", "_3e", "_3f", "_3g", "_3h"}
    [] s \in {"_4a", "_4b"} -> {"_3i"}
    [] s \in {"_4c", "_4d", "_4e", "_4f", "_4g"} -> {"_3i", "_4a"}
    [] s = "_4h" -> {"_3a", "_3i", "_3b", "_3f", "_3e", "_3g"}
    [] s = "_5" -> Stages

\* what the external tool (meltano run, dbt run) of a stage comes to: exit
\* code 0, another exit code, subprocess.TimeoutExpired, or another
\* exception of subprocess.run
ToolOutcomes == {"ok", "nonzero", "timeout", "exception"}

\* what a stage came to.  state: "pending", "returned" (a result record),
\* "raised" (an exception left the asset function) or "skipped" (Dagster
\* did not run it).  tool: the outcome of its subprocess, "none" when it
\* started none.  keys: which of table_name, error, failure_type the
\* record has.  stderr: the record carries the subprocess's stderr.
StagePending ==
  [state |-> "pending", tool |-> "none", status |-> "none", keys |-> {},
   failure_type |-> "none", stderr |-> FALSE]

StageSkipped == [StagePending EXCEPT !.state = "skipped"]

StageRaised(tool) == [StagePending EXCEPT !.state = "raised", !.tool = tool]

StageReturned(tool, status, keys, failure_type, stderr) ==
  [state |-> "returned", tool |-> tool, status |-> status, keys |-> keys,
   failure_type |-> failure_type, stderr |-> stderr]

FailedKeys == {"table_name", "error", "failure_type"}

\* _1_staging_to_bigquery: a failed or timed-out Meltano run leaves
\* all_table_names empty, and the stage returns its "warning" record
StagingToBigquery(tool) ==
  IF tool = "ok"
    THEN StageReturned(tool, "success", {}, "none", FALSE)
    ELSE StageReturned(tool, "warning", {}, "none", FALSE)

\* the staging models whose record says "completed"
CompletedStages == {"_2a", "_2c", "_2d", "_2e", "_2f", "_2g", "_2h"}

OkStatus(s) == IF s \in CompletedStages THEN "completed" ELSE "success"

\* _2a.._2g, _2i, _3a.._3f, _3h, _3i: a non-zero dbt exit and a timeout are
\* raised as an Exception out of the asset function
RaisingDbtStage(s, tool) ==
  IF tool = "ok"
    THEN StageReturned(tool, OkStatus(s), {"table_name"}, "none", FALSE)
    ELSE StageRaised(tool)

\* _2h, _3g: every failure is returned as a record
GeolocationDbtStage(s, tool) ==
  CASE tool = "ok" ->
         StageReturned(tool, OkStatus(s), {"table_name"}, "none", FALSE)
    [] tool = "nonzero" ->
         StageReturned(tool, "failed", FailedKeys, "dbt_execution_error", TRUE)
    [] tool = "timeout" ->
         StageReturned(tool, "failed", FailedKeys, "timeout_error", FALSE)
    [] tool = "exception" ->
         StageReturned(tool, "failed", FailedKeys, "execution_error", FALSE)

\* _4a.._4h: every failure is returned as a record
AnalyticsDbtStage(s, tool) ==
  CASE tool = "ok" ->
         StageReturned(tool, OkStatus(s), {"table_name"}, "none", FALSE)
    [] tool = "nonzero" ->
         StageReturned(tool, "failed", FailedKeys, "dbt_execution_error", TRUE)
    [] tool \in {"timeout", "exception"} ->
         StageReturned(tool, "failed", FailedKeys, "exception_error", FALSE)

\* _3g, the only stage that looks at the status of an input before it
\* runs dbt, when _2h returned a failed record
DependencyFailure ==
  StageReturned("none", "failed", FailedKeys, "dependency_failure", FALSE)

\* the body of the asset function of stage s, given the results so far and
\* what its subprocess comes to
StageBody(s, res, tool) ==
  CASE s = "_1" -> StagingToBigquery(tool)
    [] s = "_2h" -> GeolocationDbtStage(s, tool)
    [] s = "_3g" ->
         IF res["_2h"].status = "failed"
           THEN DependencyFailure
           ELSE GeolocationDbtStage(s, tool)
    [] s \in {"_4a", "_4b", "_4c", "_4d", "_4e", "_4f", "_4g", "_4h"} ->
         AnalyticsDbtStage(s, tool)
    [] OTHER -> RaisingDbtStage(s, tool)

RunnableAlways(s, res) == TRUE

\* Dagster runs an asset only when every asset it depends on returned
Runnable(s, res) == \A d \in Deps(s) : res[d].state = "returned"

Faults(res) ==
  Cardinality({s \in Stages : res[s].tool \in ToolOutcomes \ {"ok"}})

\* one asset of the run: Dagster runs the next stage, or skips it
ExecuteStage(tool) ==
  /\ nxt \in 1..Len(StageOrder)
  /\ Runnable(StageOrder[nxt], results)
  /\ tool # "ok" => Faults(results) < MaxFaults
  /\ results' = [results EXCEPT
                   ![StageOrder[nxt]] = StageBody(StageOrder[nxt], results, tool)]
  /\ nxt' = nxt + 1
  /\ UNCHANGED <<summ, recVars, extractVars, anaVars, kmVars, delVars, migVars>>

SkipStage ==
  /\ nxt \in 1..Len(StageOrder)
  /\ ~Runnable(StageOrder[nxt], results)
  /\ results' = [results EXCEPT ![StageOrder[nxt]] = StageSkipped]
  /\ nxt' = nxt + 1
  /\ UNCHANGED <<summ, recVars, extractVars, anaVars, kmVars, delVars, migVars>>

(* ------------------------- _5_dbt_summaries --------------------------- *)

Statuses == {"success", "completed", "warning", "failed"}

NoSummary ==
  [pc |-> "pending", idx |-> 0,
   successful_functions |-> 0, failed_functions |-> 0,
   function_details |-> [st \in Statuses |-> 0],
   pipeline_status |-> "none", email_result |-> "none", ret |-> NULL]

\* function_status_summary before the loop
StartedSummary == [NoSummary EXCEPT !.pc = "analyse", !.idx = 1]

AnalyseResultWarningUntallied(sm, status) ==
  [sm EXCEPT
     !.idx = @ + 1,
     !.successful_functions = IF status \in {"success", "completed"} THEN @ + 1 ELSE @,
     !.failed_functions = IF status = "failed" THEN @ + 1 ELSE @,
     !.function_details =
        IF status \in Statuses THEN [@ EXCEPT ![status] = @ + 1] ELSE @]

\* the body of the loop over all_function_results for a record of that
\* status; function_details keeps the status of every function (here: how
\* many functions had each status)
AnalyseResult(sm, status) ==
  [sm EXCEPT
     !.idx = @ + 1,
     !.successful_functions =
        IF status \in {"success", "completed"} \/ status = "warning"
          THEN @ + 1 ELSE @,
     !.failed_functions = IF status = "failed" THEN @ + 1 ELSE @,
     !.function_details =
        IF status \in Statuses THEN [@ EXCEPT ![status] = @ + 1] ELSE @]

PipelineStatusNoPartial(successful, failed) ==
  IF failed = 0 THEN "SUCCESS" ELSE "FAILURE"

PipelineStatus(successful, failed) ==
  IF failed = 0 THEN "SUCCESS"
  ELSE IF successful > 0 THEN "PARTIAL_SUCCESS"
  ELSE "FAILURE"

\* what sending the notification comes to: sent, send_email_notification
\* returning its error record (configuration missing, or an exception of
\* the email service), or an exception in the try block of the summary
EmailOutcomes == {"sent", "missing_configuration", "service_exception", "exception"}

EmailResult(outcome) ==
  CASE outcome = "sent" -> [status |-> "success"]
    [] outcome \in {"missing_configuration", "service_exception"} ->
         [status |-> "error"]
    [] outcome = "exception" -> [error |-> "Email sending failed"]

SummaryReturnFailsOnEmail(sm) ==
  IF "status" \in DOMAIN sm.email_result /\ sm.email_result.status = "success"
    THEN <<[status |-> "success", pipeline_status |-> sm.pipeline_status,
            email_sent |-> sm.email_result]>>
    ELSE <<[status |-> "failed", pipeline_status |-> "FAILURE",
            email_sent |-> sm.email_result]>>

\* the record _5_dbt_summaries returns
SummaryReturn(sm) ==
  <<[status |-> "success", pipeline_status |-> sm.pipeline_status,
     email_sent |-> sm.email_result]>>

\* Dagster starts the summary when all its inputs returned
StartSummary ==
  /\ nxt = Len(StageOrder) + 1
  /\ Runnable("_5", results)
  /\ summ' = StartedSummary
  /\ nxt' = nxt + 1
  /\ UNCHANGED <<results, recVars, extractVars, anaVars, kmVars, delVars, migVars>>

SkipSummary ==
  /\ nxt = Len(StageOrder) + 1
  /\ ~Runnable("_5", results)
  /\ summ' = [NoSummary EXCEPT !.pc = "skipped"]
  /\ nxt' = nxt + 1
  /\ UNCHANGED <<results, recVars, extractVars, anaVars, kmVars, delVars, migVars>>

\* one iteration of the loop, on the record of the run
AnalyseStage ==
  /\ summ.pc = "analyse"
  /\ summ.idx \in 1..Len(StageOrder)
  /\ results # <<>>
  /\ summ' = AnalyseResult(summ, results[StageOrder[summ.idx]].status)
  /\ UNCHANGED <<results, nxt, recVars, extractVars, anaVars, kmVars, delVars, migVars>>

\* one iteration of the loop, on a record of any status
AnalyseAnyResult(status) ==
  /\ summ.pc = "analyse"
  /\ summ.idx \in 1..Len(StageOrder)
  /\ results = <<>>
  /\ summ' = AnalyseResult(summ, status)
  /\ UNCHANGED <<results, nxt, recVars, extractVars, anaVars, kmVars, delVars, migVars>>

\* after the loop: the overall status
DetermineStatus ==
  /\ summ.pc = "analyse"
  /\ summ.idx = Len(StageOrder) + 1
  /\ summ' = [summ EXCEPT
                !.pc = "email",
                !.pipeline_status =
                   PipelineStatus(summ.successful_functions, summ.failed_functions)]
  /\ UNCHANGED <<results, nxt, recVars, extractVars, anaVars, kmVars, delVars, migVars>>

\* the try block around send_email_notification
SendEmail(outcome) ==
  /\ summ.pc = "email"
  /\ summ' = [summ EXCEPT !.pc = "return", !.email_result = EmailResult(outcome)]
  /\ UNCHANGED <<results, nxt, recVars, extractVars, anaVars, kmVars, delVars, migVars>>

ReturnSummary ==
  /\ summ.pc = "return"
  /\ summ' = [summ EXCEPT !.pc = "returned", !.ret = SummaryReturn(summ)]
  /\ UNCHANGED <<results, nxt, recVars, extractVars, anaVars, kmVars, delVars, migVars>>

InitPipeline ==
  /\ rec = IdleRow
  /\ rpc = "idle"
  /\ warehouse = <<>>
  /\ cache = NoFile
  /\ last = NoCall
  /\ ncalls = 0
  /\ results = [s \in Stages |-> StagePending]
  /\ nxt = 1
  /\ summ = NoSummary
  /\ sla_df = <<>>
  /\ analysis_results = <<>>
  /\ acall = NoCall
  /\ npoints = 0
  /\ centers = <<>>
  /\ cluster_map = <<>>
  /\ dataset = <<>>
  /\ dcall = NoCall
  /\ raw_tables = <<>>
  /\ mig = <<>>

NextPipeline ==
  \/ \E tool \in ToolOutcomes : ExecuteStage(tool)
  \/ SkipStage
  \/ StartSummary
  \/ SkipSummary
  \/ AnalyseStage
  \/ DetermineStatus
  \/ \E outcome \in EmailOutcomes : SendEmail(outcome)
  \/ ReturnSummary

SpecPipeline == InitPipeline /\ [][NextPipeline]_vars

\* the summary alone, handed records of every status
InitSummary ==
  /\ rec = IdleRow
  /\ rpc = "idle"
  /\ warehouse = <<>>
  /\ cache = NoFile
  /\ last = NoCall
  /\ ncalls = 0
  /\ results = <<>>
  /\ nxt = 0
  /\ summ = StartedSummary
  /\ sla_df = <<>>
  /\ analysis_results = <<>>
  /\ acall = NoCall
  /\ npoints = 0
  /\ centers = <<>>
  /\ cluster_map = <<>>
  /\ dataset = <<>>
  /\ dcall = NoCall
  /\ raw_tables = <<>>
  /\ mig = <<>>

NextSummary ==
  \/ \E status \in Statuses : AnalyseAnyResult(status)
  \/ DetermineStatus
  \/ \E outcome \in EmailOutcomes : SendEmail(outcome)
  \/ ReturnSummary

SpecSummary == InitSummary /\ [][NextSummary]_vars

(* -------------------- SLAAnalyzer (analysis.py) ----------------------- *)

\* minimum Order_Count of a group that stays in its table
StateMinOrders == 100

DistanceMinOrders == 50

CategoryMinOrders == 100

PriceMinOrders == 10

\* the inner edges of the distance bins of pd.cut
Distance100 == 100

Distance300 == 300

Distance600 == 600

Distance1000 == 1000

DistanceLabels == <<"<100km", "100-300km", "300-600km", "600-1000km", ">1000km">>

PriceLabels == <<"Very Low", "Low", "Medium", "High", "Very High">>

\* pd.cut(distance_km, bins=[0, 100, 300, 600, 1000, inf]): intervals closed
\* on the right; a value outside them, or NaN, has no bin
DistanceBin(d) ==
  IF d = NULL \/ d[1] <= 0 THEN NULL
  ELSE IF d[1] <= Distance100 THEN Some(DistanceLabels[1])
  ELSE IF d[1] <= Distance300 THEN Some(DistanceLabels[2])
  ELSE IF d[1] <= Distance600 THEN Some(DistanceLabels[3])
  ELSE IF d[1] <= Distance1000 THEN Some(DistanceLabels[4])
  ELSE Some(DistanceLabels[5])

\* the kinds of order item a table is made of: the columns the analyses
\* group by.  A table is the number of rows of each kind.
OrderKinds ==
  << [customer_state |-> "SP", product_category_name_english |-> "toys",
      distance_km |-> Some(50), price |-> Some(20), late_to_edd_flag |-> 0,
      order_dow |-> 1],
     [customer_state |-> "AC", product_category_name_english |-> "toys",
      distance_km |-> Some(50), price |-> Some(100), late_to_edd_flag |-> 1,
      order_dow |-> 2],
     [customer_state |-> "AC", product_category_name_english |-> "auto",
      distance_km |-> Some(400), price |-> Some(100), late_to_edd_flag |-> 0,
      order_dow |-> 2] >>

Kinds == 1..Len(OrderKinds)

\* the numbers of rows of one kind: none, few, and around each threshold
RowCounts == {0, 5, 9, 10, 49, 50, 99, 100}

\* the grouping columns, as the table of the extraction has them
GroupValue(k, col) ==
  CASE col = "customer_state" -> Some(OrderKinds[k].customer_state)
    [] col = "product_category_name_english" ->
         Some(OrderKinds[k].product_category_name_english)
    [] col = "distance_bin" -> DistanceBin(OrderKinds[k].distance_km)
    [] col = "price_bin" -> Some(PriceBin(OrderKinds[k].price))
    [] col = "order_dow" -> Some(OrderKinds[k].order_dow)

RECURSIVE RowsIn(_, _)
\* the number of rows of the table that are of a kind in S
RowsIn(t, S) ==
  IF S = {} THEN 0
  ELSE LET k == CHOOSE x \in S : TRUE
       IN  t[k] + RowsIn(t, S \ {k})

\* df.empty
Empty(t) == RowsIn(t, Kinds) = 0

GroupKinds(col, g) == {k \in Kinds : GroupValue(k, col) = Some(g)}

\* df.groupby(col).agg({'late_to_edd_flag': ['mean', 'count'], ...}) for the
\* group keys given: Late_Rate is Late / Order_Count
Aggregate(t, col, keys) ==
  { [key |-> g,
     Order_Count |-> RowsIn(t, GroupKinds(col, g)),
     Late |-> RowsIn(t, {k \in GroupKinds(col, g) : OrderKinds[k].late_to_edd_flag = 1})] :
    g \in keys }

\* the keys of a group-by on a column of strings: the values that occur
ObservedKeys(t, col) ==
  {g \in {GroupValue(k, col)[1] : k \in Kinds} : RowsIn(t, GroupKinds(col, g)) > 0}

SupportFilterNone(table, min_orders) == table

\* table[table['Order_Count'] >= min_orders]
SupportFilter(table, min_orders) == {r \in table : r.Order_Count >= min_orders}

\* sort_values('Late_Rate', ascending=False): the orders of the rows that
\* are descending in Late / Order_Count (rows of equal rate in any order)
SortValuesLateRate(table) ==
  {s \in [1..Cardinality(table) -> table] :
     /\ \A i, j \in DOMAIN s : i # j => s[i] # s[j]
     /\ \A i, j \in DOMAIN s :
          i < j => s[i].Late * s[j].Order_Count >= s[j].Late * s[i].Order_Count}

\* the rows of a table in the order of the labels given
InLabelOrder(table, labels) ==
  LET Row(g) == CHOOSE r \in table : r.key = g
      F[i \in 0..Len(labels)] ==
        IF i = 0 THEN <<>>
        ELSE IF \E r \in table : r.key = labels[i]
               THEN Append(F[i - 1], Row(labels[i]))
               ELSE F[i - 1]
  IN  F[Len(labels)]

Range(s) == {s[i] : i \in DOMAIN s}

NoAnalyses ==
  [geographic |-> NULL, product |-> NULL, price |-> NULL, temporal |-> NULL]

AnalysisReturned(fn, value) == [kind |-> "returned", fn |-> fn, value |-> value]

AnalysisRaised(fn, error) == [kind |-> "raised", fn |-> fn, error |-> error]

\* perform_geographic_analysis.  The two print lines after the state table
\* index its first and last row: .index[0] of an empty table is an
\* IndexError, raised before the results are stored.
PerformGeographicAnalysis ==
  /\ sla_df # <<>>
  /\ IF Empty(sla_df)
       THEN /\ acall' = AnalysisReturned("perform_geographic_analysis", NULL)
            /\ UNCHANGED analysis_results
       ELSE \E state_analysis \in
                 SortValuesLateRate(
                   SupportFilter(
                     Aggregate(sla_df, "customer_state",
                               ObservedKeys(sla_df, "customer_state")),
                     StateMinOrders)) :
              IF state_analysis = <<>>
                THEN /\ acall' = AnalysisRaised("perform_geographic_analysis", "IndexError")
                     /\ UNCHANGED analysis_results
                ELSE LET distance_analysis ==
                           InLabelOrder(
                             SupportFilter(
                               Aggregate(sla_df, "distance_bin", Range(DistanceLabels)),
                               DistanceMinOrders),
                             DistanceLabels)
                         geo == [state_analysis |-> state_analysis,
                                 distance_analysis |-> distance_analysis]
                     IN  /\ analysis_results' =
                              [analysis_results EXCEPT !.geographic = Some(geo)]
                         /\ acall' = AnalysisReturned("perform_geographic_analysis", Some(geo))
  /\ UNCHANGED <<sla_df, recVars, extractVars, pipeVars, kmVars, delVars, migVars>>

\* perform_product_analysis: prints the best and worst category only when
\* the table has rows
PerformProductAnalysis ==
  /\ sla_df # <<>>
  /\ IF Empty(sla_df)
       THEN /\ acall' = AnalysisReturned("perform_product_analysis", NULL)
            /\ UNCHANGED analysis_results
       ELSE \E category_analysis \in
                 SortValuesLateRate(
                   SupportFilter(
                     Aggregate(sla_df, "product_category_name_english",
                               ObservedKeys(sla_df, "product_category_name_english")),
                     CategoryMinOrders)) :
              LET prod == [category_analysis |-> category_analysis]
              IN  /\ analysis_results' =
                       [analysis_results EXCEPT !.product = Some(prod)]
                  /\ acall' = AnalysisReturned("perform_product_analysis", Some(prod))
  /\ UNCHANGED <<sla_df, recVars, extractVars, pipeVars, kmVars, delVars, migVars>>

\* perform_price_analysis: groups by the price_bin column of the extraction;
\* reindex(desired_order).dropna() puts the rows left in the order of the
\* labels
PerformPriceAnalysis ==
  /\ sla_df # <<>>
  /\ IF Empty(sla_df)
       THEN /\ acall' = AnalysisReturned("perform_price_analysis", NULL)
            /\ UNCHANGED analysis_results
       ELSE LET price_analysis ==
                  InLabelOrder(
                    SupportFilter(
                      Aggregate(sla_df, "price_bin", ObservedKeys(sla_df, "price_bin")),
                      PriceMinOrders),
                    PriceLabels)
                pr == [price_analysis |-> price_analysis]
            IN  /\ analysis_results' = [analysis_results EXCEPT !.price = Some(pr)]
                /\ acall' = AnalysisReturned("perform_price_analysis", Some(pr))
  /\ UNCHANGED <<sla_df, recVars, extractVars, pipeVars, kmVars, delVars, migVars>>

dow_names == <<"Sunday", "Monday", "Tuesday", "Wednesday", "Thursday", "Friday",
               "Saturday">>

\* (late / count).round(3), in thousandths: numpy rounds a half to the even
\* neighbour
Round3(late, count) ==
  LET q == (1000 * late) \div count
      r == (1000 * late) % count
  IN  IF 2 * r > count \/ (2 * r = count /\ q % 2 = 1) THEN q + 1 ELSE q

\* df.groupby('order_dow').agg({'late_to_edd_flag': 'mean', ..., 'order_id':
\* 'count'}).round(3), the index renamed with dow_names: one row for each
\* day that occurs, in the order of the day numbers
DowAnalysis(t) ==
  LET F[i \in 0..Len(dow_names)] ==
        IF i = 0 THEN <<>>
        ELSE LET n == RowsIn(t, GroupKinds("order_dow", i))
                 late == RowsIn(t, {k \in GroupKinds("order_dow", i) :
                                      OrderKinds[k].late_to_edd_flag = 1})
             IN  IF n = 0 THEN F[i - 1]
                 ELSE Append(F[i - 1], [key |-> dow_names[i],
                                        late_to_edd_flag |-> Round3(late, n),
                                        order_id |-> n])
  IN  F[Len(dow_names)]

\* table['late_to_edd_flag'].idxmax(): the label of the first row that has
\* the largest value
IdxMax(table) ==
  table[CHOOSE i \in DOMAIN table :
          /\ \A j \in DOMAIN table : table[j].late_to_edd_flag <= table[i].late_to_edd_flag
          /\ \A j \in 1..(i - 1) : table[j].late_to_edd_flag < table[i].late_to_edd_flag].key

\* table['late_to_edd_flag'].idxmin()
IdxMin(table) ==
  table[CHOOSE i \in DOMAIN table :
          /\ \A j \in DOMAIN table : table[j].late_to_edd_flag >= table[i].late_to_edd_flag
          /\ \A j \in 1..(i - 1) : table[j].late_to_edd_flag > table[i].late_to_edd_flag].key

\* perform_temporal_analysis: the table of the days of the week, as grouped,
\* and the worst and the best day it prints.  The table of the extraction
\* always has the order_dow column.
PerformTemporalAnalysis ==
  /\ sla_df # <<>>
  /\ IF Empty(sla_df)
       THEN /\ acall' = AnalysisReturned("perform_temporal_analysis", NULL)
            /\ UNCHANGED analysis_results
       ELSE LET dow_analysis == DowAnalysis(sla_df)
                tmp == [day_of_week |-> dow_analysis,
                        worst_day |-> IdxMax(dow_analysis),
                        best_day |-> IdxMin(dow_analysis)]
            IN  /\ analysis_results' = [analysis_results EXCEPT !.temporal = Some(tmp)]
                /\ acall' = AnalysisReturned("perform_temporal_analysis", Some(tmp))
  /\ UNCHANGED <<sla_df, recVars, extractVars, pipeVars, kmVars, delVars, migVars>>

\* the temporal insight of generate_insights, when there is a day-of-week
\* table with rows
TemporalInsights(res) ==
  IF res.temporal # NULL /\ res.temporal[1].day_of_week # <<>>
    THEN << [insight |-> "Temporal pattern",
             worst_day |-> IdxMax(res.temporal[1].day_of_week)] >>
    ELSE <<>>

\* generate_insights: the geographic insight, when there is a state table
\* with rows, and the temporal insight
GenerateInsights(res) ==
  (IF res.geographic # NULL /\ res.geographic[1].state_analysis # <<>>
     THEN << [insight |-> "Geographic disparity",
              worst_state |-> Head(res.geographic[1].state_analysis).key,
              best_state |-> res.geographic[1].state_analysis[
                               Len(res.geographic[1].state_analysis)].key] >>
     ELSE <<>>)
  \o TemporalInsights(res)

\* get_comprehensive_summary: formats min() and max() of
\* order_purchase_timestamp with strftime; of a table without rows they
\* are NaT, and NaT.strftime is a ValueError
GetComprehensiveSummary ==
  /\ sla_df # <<>>
  /\ acall' = IF Empty(sla_df)
                THEN AnalysisRaised("get_comprehensive_summary", "ValueError")
                ELSE AnalysisReturned("get_comprehensive_summary",
                                      Some([total_order_items |-> RowsIn(sla_df, Kinds),
                                            insights |-> GenerateInsights(analysis_results)]))
  /\ UNCHANGED <<sla_df, analysis_results, recVars, extractVars, pipeVars, kmVars, delVars, migVars>>

InitAnalysis ==
  /\ rec = IdleRow
  /\ rpc = "idle"
  /\ warehouse = <<>>
  /\ cache = NoFile
  /\ last = NoCall
  /\ ncalls = 0
  /\ results = <<>>
  /\ nxt = 0
  /\ summ = <<>>
  /\ sla_df \in [Kinds -> RowCounts]
  /\ analysis_results = NoAnalyses
  /\ acall = NoCall
  /\ npoints = 0
  /\ centers = <<>>
  /\ cluster_map = <<>>
  /\ dataset = <<>>
  /\ dcall = NoCall
  /\ raw_tables = <<>>
  /\ mig = <<>>

NextAnalysis ==
  \/ PerformGeographicAnalysis
  \/ PerformProductAnalysis
  \/ PerformPriceAnalysis
  \/ PerformTemporalAnalysis
  \/ GetComprehensiveSummary

SpecAnalysis == InitAnalysis /\ [][NextAnalysis]_vars

(* ------------- k-means binning (visualization.py) --------------------- *)

\* KMeans(n_clusters=5, ...), and the fewest values that are clustered
NClusters == 5

MinClusterPoints == 5

\* the largest cluster centre, and the most values to bin
MaxCenter == 5

MaxPoints == 5

\* the cluster ids of kmeans.fit_predict
ClusterIds == 0..(NClusters - 1)

PriceClusterLabels == <<"Very Low", "Low", "Medium", "High", "Very High">>

DistanceClusterLabels == <<"Very Short", "Short", "Medium", "Long", "Very Long">>

\* np.argsort(centers): the orders of the ids (position 0 first) in which
\* the centres ascend, ids of equal centres in any order
Argsort(c) ==
  {s \in Permutations(ClusterIds) :
     \A i \in 0..(NClusters - 2) : c[s[i]] <= c[s[i + 1]]}

ClusterMapById(sorted_indices, cluster_labels) ==
  [old_idx \in ClusterIds |-> cluster_labels[old_idx + 1]]

\* {old_idx: label for old_idx, label in zip(sorted_indices, cluster_labels)}
ClusterMap(sorted_indices, cluster_labels) ==
  [old_idx \in ClusterIds |->
     cluster_labels[1 + CHOOSE i \in ClusterIds : sorted_indices[i] = old_idx]]

\* the fixed bins: the edges below infinity, and the labels
PriceFixedBins == <<0, 30, 60, 120, 250>>

DistanceFixedBins == <<0, 50, 150, 300, 600>>

DistanceFixedLabels == <<"<50km", "50-150km", "150-300km", "300-600km", ">600km">>

\* values of the feature that records may hold: at and next to every edge
PriceSamples == {1, 30, 31, 60, 61, 120, 121, 250, 251}

DistanceSamples == {1, 50, 51, 150, 151, 300, 301, 600, 601}

\* pd.cut(v, bins=bins + [inf], labels=labels): intervals closed on the right
PdCut(v, bins, labels) ==
  IF v <= bins[1] THEN NULL
  ELSE Some(labels[CHOOSE i \in DOMAIN bins :
                     /\ bins[i] < v
                     /\ \A j \in DOMAIN bins : bins[j] < v => j <= i])

UseClusteringAlways(n) == TRUE

\* use_clustering and len(data) >= 5
UseClustering(n) == n >= MinClusterPoints

\* the bins of a plot: by clustering when there are values enough, else
\* the fixed bins given (fixed: the bin of a record, by its value)
Binning(column, labels, fixed) ==
  IF UseClustering(npoints)
    THEN {[column |-> column, clustering |-> TRUE, labels |-> labels,
           map |-> ClusterMap(sorted_indices, labels), fixed |-> <<>>] :
          sorted_indices \in Argsort(centers)}
    ELSE {[column |-> column, clustering |-> FALSE, labels |-> labels,
           map |-> <<>>, fixed |-> fixed]}

\* plot_price_analysis(use_clustering=True): the bins it plots.  Without
\* clustering it keeps the price_bin column of the table when there is one
\* (the column of the warehouse query), else it cuts the prices.
PlotPriceAnalysis(has_price_bin) ==
  /\ npoints > 0
  /\ cluster_map = <<>>
  /\ cluster_map' \in
       Binning("price", PriceClusterLabels,
               [v \in PriceSamples |->
                  IF has_price_bin THEN Some(PriceBin(Some(v)))
                  ELSE PdCut(v, PriceFixedBins, PriceClusterLabels)])
  /\ UNCHANGED <<npoints, centers, recVars, extractVars, pipeVars, anaVars, delVars, migVars>>

\* plot_route_distance_late_perc(use_clustering=True): the bins it plots
PlotRouteDistanceLatePerc ==
  /\ npoints > 0
  /\ cluster_map = <<>>
  /\ cluster_map' \in
       Binning("distance_km", DistanceClusterLabels,
               [v \in DistanceSamples |->
                  PdCut(v, DistanceFixedBins, DistanceFixedLabels)])
  /\ UNCHANGED <<npoints, centers, recVars, extractVars, pipeVars, anaVars, delVars, migVars>>

\* the values to bin, and the centres k-means finds for them, under any
\* numbering of the clusters; one plot is drawn of them
InitKMeans ==
  /\ rec = IdleRow
  /\ rpc = "idle"
  /\ warehouse = <<>>
  /\ cache = NoFile
  /\ last = NoCall
  /\ ncalls = 0
  /\ results = <<>>
  /\ nxt = 0
  /\ summ = <<>>
  /\ sla_df = <<>>
  /\ analysis_results = <<>>
  /\ acall = NoCall
  /\ npoints \in 1..MaxPoints
  /\ centers \in IF npoints >= MinClusterPoints
                   THEN [ClusterIds -> 1..MaxCenter]
                   ELSE {[id \in ClusterIds |-> 0]}
  /\ cluster_map = <<>>
  /\ dataset = <<>>
  /\ dcall = NoCall
  /\ raw_tables = <<>>
  /\ mig = <<>>

NextKMeans ==
  \/ \E has_price_bin \in BOOLEAN : PlotPriceAnalysis(has_price_bin)
  \/ PlotRouteDistanceLatePerc

SpecKMeans == InitKMeans /\ [][NextKMeans]_vars

(* ------------------- delete-bq-dataset.py ----------------------------- *)

\* the most tables in the dataset
MaxTables == 2

NoDataset == [exists |-> FALSE, tables |-> 0]

ConfirmedAnyCase(confirmation) == confirmation \in {"DELETE", "delete"}

\* not (confirmation != 'DELETE')
Confirmed(confirmation) == confirmation = "DELETE"

\* delete_dataset(client, project_id, dataset_name, dry_run): the value it
\* returns and the dataset it leaves.  client.delete_dataset is taken to
\* delete nothing when it raises.
DeleteDatasetOutcome(ds, dry_run, confirmation, fault) ==
  IF ~ds.exists \/ fault = "get_dataset" THEN [value |-> FALSE, dataset |-> ds]
  ELSE IF fault = "list_tables" THEN [value |-> FALSE, dataset |-> ds]
  ELSE IF dry_run THEN [value |-> TRUE, dataset |-> ds]
  ELSE IF fault = "input" THEN [value |-> FALSE, dataset |-> ds]
  ELSE IF ~Confirmed(confirmation) THEN [value |-> FALSE, dataset |-> ds]
  ELSE IF fault = "delete_dataset" THEN [value |-> FALSE, dataset |-> ds]
  ELSE [value |-> TRUE, dataset |-> NoDataset]

\* main(): lists the datasets, and calls delete_dataset unless --list-only
\* was given or the dataset is not among those listed
Main(dry_run, list_only, confirmation, fault) ==
  /\ dataset # <<>>
  /\ LET called == ~list_only /\ dataset.exists
         out == IF called
                  THEN DeleteDatasetOutcome(dataset, dry_run, confirmation, fault)
                  ELSE [value |-> FALSE, dataset |-> dataset]
     IN  /\ dataset' = out.dataset
         /\ dcall' = [kind |-> IF called THEN "returned" ELSE "not called",
                      dry_run |-> dry_run, list_only |-> list_only,
                      confirmation |-> confirmation, fault |-> fault,
                      value |-> out.value]
  /\ UNCHANGED <<recVars, extractVars, pipeVars, anaVars, kmVars, migVars>>

\* the pipeline creates the raw dataset again, and loads tables into it
CreateDataset(n) ==
  /\ dataset # <<>>
  /\ dataset' = [exists |-> TRUE, tables |-> n]
  /\ dataset' # dataset
  /\ UNCHANGED <<dcall, recVars, extractVars, pipeVars, anaVars, kmVars, migVars>>

InitDelete ==
  /\ rec = IdleRow
  /\ rpc = "idle"
  /\ warehouse = <<>>
  /\ cache = NoFile
  /\ last = NoCall
  /\ ncalls = 0
  /\ results = <<>>
  /\ nxt = 0
  /\ summ = <<>>
  /\ sla_df = <<>>
  /\ analysis_results = <<>>
  /\ acall = NoCall
  /\ npoints = 0
  /\ centers = <<>>
  /\ cluster_map = <<>>
  /\ dataset \in {NoDataset} \cup [exists : {TRUE}, tables : 0..MaxTables]
  /\ dcall = NoCall
  /\ raw_tables = <<>>
  /\ mig = <<>>

\* a run of the script: its flags, what the operator types at the prompt,
\* and the call of delete_dataset that raises, if any
NextDelete ==
  \/ \E dry_run \in BOOLEAN, list_only \in BOOLEAN,
        confirmation \in {"DELETE", "delete", "DELETE ", "yes", ""},
        fault \in {"none", "get_dataset", "list_tables", "input", "delete_dataset"} :
       Main(dry_run, list_only, confirmation, fault)
  \/ \E n \in 0..MaxTables : CreateDataset(n)

SpecDelete == InitDelete /\ [][NextDelete]_vars

(* ------- the post-load migration of _1_staging_to_bigquery ------------ *)

\* the most rows of a table of the raw dataset
MaxTableRows == 2

\* the tables of one base name: the clean table and the date-suffixed
\* tables that Meltano left, in the order list_tables gives them; a table
\* is missing (NULL) or holds a number of rows
DateTables == <<"d1", "d2">>

DateTableSet == {DateTables[i] : i \in DOMAIN DateTables}

Populated(t) == t # NULL /\ t[1] > 0

\* the migration of one base name: where it stands, the date-suffixed
\* tables listed, the table chosen as source and its rows, and whether the
\* empty clean table was deleted
MigrationIdle ==
  [pc |-> "list", date_tables |-> {}, source_table |-> NULL, max_rows |-> 0,
   deleted_clean |-> FALSE]

\* the loop over date_tables that looks for the table with the most rows:
\* a table whose get_table raises is passed over, and of two tables with
\* as many rows the first stays
RECURSIVE FindSource(_, _, _, _, _)
FindSource(tables, listed, failing, i, acc) ==
  IF i > Len(DateTables) THEN acc
  ELSE LET dt == DateTables[i]
       IN  IF dt \in listed /\ dt \notin failing /\ tables[dt] # NULL
                /\ tables[dt][1] > acc.max_rows
             THEN FindSource(tables, listed, failing, i + 1,
                             [source_table |-> Some(dt), max_rows |-> tables[dt][1]])
             ELSE FindSource(tables, listed, failing, i + 1, acc)

\* client.delete_table on each table of a set, those in failing raising:
\* the tables left
DeleteTables(tables, S, failing) ==
  [t \in DOMAIN tables |-> IF t \in S \ failing THEN NULL ELSE tables[t]]

\* client.copy_table(source, clean) with the default write disposition
\* (WRITE_EMPTY) can complete only when the destination is missing or empty
CopyCanComplete(tables) == ~Populated(tables.clean)

\* list_tables and the categorisation; list_tables raising ends the
\* post-processing (except Exception as postprocess_error).  A base name
\* without date-suffixed tables is only verified.
ListTables(ok) ==
  /\ mig # <<>> /\ mig.pc = "list"
  /\ LET listed == {dt \in DateTableSet : raw_tables[dt] # NULL}
     IN  mig' = IF ~ok THEN [mig EXCEPT !.pc = "done"]
                ELSE IF listed = {} THEN [mig EXCEPT !.pc = "final"]
                ELSE [mig EXCEPT !.pc = "scan", !.date_tables = listed]
  /\ UNCHANGED <<raw_tables, recVars, extractVars, pipeVars, anaVars, kmVars, delVars>>

\* the search for source_table; without a table known to hold rows nothing
\* is migrated
ScanDateTables(failing) ==
  /\ mig # <<>> /\ mig.pc = "scan"
  /\ failing \subseteq mig.date_tables
  /\ LET found == FindSource(raw_tables, mig.date_tables, failing, 1,
                             [source_table |-> NULL, max_rows |-> 0])
     IN  mig' = [mig EXCEPT !.source_table = found.source_table,
                            !.max_rows = found.max_rows,
                            !.pc = IF found.source_table # NULL /\ found.max_rows > 0
                                     THEN "check" ELSE "final"]
  /\ UNCHANGED <<raw_tables, recVars, extractVars, pipeVars, anaVars, kmVars, delVars>>

\* client.get_table(clean_table_id): an empty clean table is to be
\* replaced, one with rows stays; a missing table, or an error of the
\* lookup, leads to the except clause
CheckCleanTable(ok) ==
  /\ mig # <<>> /\ mig.pc = "check"
  /\ ok => raw_tables.clean # NULL
  /\ mig' = [mig EXCEPT !.pc = IF ~ok THEN "copy_in_except"
                               ELSE IF raw_tables.clean[1] = 0 THEN "delete_clean"
                               ELSE "cleanup"]
  /\ UNCHANGED <<raw_tables, recVars, extractVars, pipeVars, anaVars, kmVars, delVars>>

\* client.delete_table(clean_table_id) of the empty clean table
DeleteCleanTable(ok) ==
  /\ mig # <<>> /\ mig.pc = "delete_clean"
  /\ raw_tables' = IF ok THEN [raw_tables EXCEPT !.clean = NULL] ELSE raw_tables
  /\ mig' = [mig EXCEPT !.pc = IF ok THEN "copy" ELSE "copy_in_except",
                         !.deleted_clean = ok]
  /\ UNCHANGED <<recVars, extractVars, pipeVars, anaVars, kmVars, delVars>>

\* copy_table(source, clean) and copy_job.result() after the deletion
CopyTable(ok) ==
  /\ mig # <<>> /\ mig.pc = "copy"
  /\ ok => CopyCanComplete(raw_tables)
  /\ raw_tables' = IF ok THEN [raw_tables EXCEPT !.clean = raw_tables[mig.source_table[1]]]
                   ELSE raw_tables
  /\ mig' = [mig EXCEPT !.pc = IF ok THEN "cleanup" ELSE "copy_in_except"]
  /\ UNCHANGED <<recVars, extractVars, pipeVars, anaVars, kmVars, delVars>>

\* the except clause of the lookup, which also receives a failed deletion
\* and a failed copy: copy_table again.  An exception here is caught as
\* migrate_error, which passes over the cleanup of this base name.
CopyInExcept(ok) ==
  /\ mig # <<>> /\ mig.pc = "copy_in_except"
  /\ ok => CopyCanComplete(raw_tables)
  /\ raw_tables' = IF ok THEN [raw_tables EXCEPT !.clean = raw_tables[mig.source_table[1]]]
                   ELSE raw_tables
  /\ mig' = [mig EXCEPT !.pc = IF ok THEN "cleanup" ELSE "final"]
  /\ UNCHANGED <<recVars, extractVars, pipeVars, anaVars, kmVars, delVars>>

\* the clean-up of all date-suffixed tables of the base name
CleanUpDateTables(failing) ==
  /\ mig # <<>> /\ mig.pc = "cleanup"
  /\ failing \subseteq mig.date_tables
  /\ raw_tables' = DeleteTables(raw_tables, mig.date_tables, failing)
  /\ mig' = [mig EXCEPT !.pc = "final"]
  /\ UNCHANGED <<recVars, extractVars, pipeVars, anaVars, kmVars, delVars>>

\* the clean-up after the verification: list_tables again, and delete_table
\* on every table named supabase_<expected>__...
FinalCleanUp(ok, failing) ==
  /\ mig # <<>> /\ mig.pc = "final"
  /\ LET listed == {dt \in DateTableSet : raw_tables[dt] # NULL}
     IN  /\ failing \subseteq listed
         /\ ~ok => failing = {}
         /\ raw_tables' = IF ok THEN DeleteTables(raw_tables, listed, failing)
                          ELSE raw_tables
  /\ mig' = [mig EXCEPT !.pc = "done"]
  /\ UNCHANGED <<recVars, extractVars, pipeVars, anaVars, kmVars, delVars>>

InitMigrate ==
  /\ rec = IdleRow
  /\ rpc = "idle"
  /\ warehouse = <<>>
  /\ cache = NoFile
  /\ last = NoCall
  /\ ncalls = 0
  /\ results = <<>>
  /\ nxt = 0
  /\ summ = <<>>
  /\ sla_df = <<>>
  /\ analysis_results = <<>>
  /\ acall = NoCall
  /\ npoints = 0
  /\ centers = <<>>
  /\ cluster_map = <<>>
  /\ dataset = <<>>
  /\ dcall = NoCall
  /\ raw_tables \in [{"clean"} \cup DateTableSet ->
                       {NULL} \cup {Some(n) : n \in 0..MaxTableRows}]
  /\ mig = MigrationIdle

NextMigrate ==
  \/ \E ok \in BOOLEAN : ListTables(ok)
  \/ \E failing \in SUBSET DateTableSet : ScanDateTables(failing)
  \/ \E ok \in BOOLEAN : CheckCleanTable(ok)
  \/ \E ok \in BOOLEAN : DeleteCleanTable(ok)
  \/ \E ok \in BOOLEAN : CopyTable(ok)
  \/ \E ok \in BOOLEAN : CopyInExcept(ok)
  \/ \E failing \in SUBSET DateTableSet : CleanUpDateTables(failing)
  \/ \E ok \in BOOLEAN, failing \in SUBSET DateTableSet : FinalCleanUp(ok, failing)

SpecMigrate == InitMigrate /\ [][NextMigrate]_vars

(* ------------------- claims about the extraction ---------------------- *)

\* A step of the specification that is one call of extract_delivery_data;
\* last' then describes that call.
IsCall == ncalls' # ncalls

\* C5: whatever the sequence of calls, a call with a row limit never writes
\* the cache file, and whatever a call puts in the cache file is the table
\* of a full, unlimited extraction of the warehouse.
C5_CacheHoldsFullExtraction ==
  [][cache' # cache =>
       /\ IsCall
       /\ ~Truthy(last'.limit)
       /\ cache'.exists
       /\ cache'.frame = FromPandas(FreshTable(warehouse, NULL))]_vars

\* A call with caching enabled and a row limit that cut the result short
\* returned, and left no cache file behind.
C5_Witness ==
  /\ last.kind = "returned"
  /\ last.use_cache
  /\ Truthy(last.limit)
  /\ last.source = "warehouse"
  /\ Len(last.df.rows) = last.limit[1]
  /\ Len(last.df.rows) < Len(FreshTable(warehouse, NULL).rows)
  /\ ~cache.exists

\* C6 as stated: a call with a record limit takes its result from a fresh
\* warehouse query, never from the cache file.
C6_LimitSkipsCache ==
  (last.kind # "none" /\ Truthy(last.limit)) => last.source = "warehouse"

\* C6 as amended: a call with a record limit still consults the cache file
\* whenever use_cache is true and the file exists, and then returns the
\* first `limit` rows of the cached table; it queries the warehouse exactly
\* when use_cache is false or no cache file exists.
C6_LimitReadsCacheWhenPresent ==
  [][(IsCall /\ Truthy(last'.limit)) =>
       /\ (last'.source = "cache") <=> (last'.use_cache /\ cache.exists)
       /\ (last'.source = "warehouse") <=> ~(last'.use_cache /\ cache.exists)
       /\ (last'.kind = "returned" /\ last'.source = "cache") =>
            last'.df = PandasHead(ToPandas(ReadParquet(cache)), last'.limit[1])
       /\ (last'.kind = "returned" /\ last'.source = "warehouse") =>
            last'.df = FreshTable(warehouse, last'.limit)]_vars

\* A call with a limit returned the first rows of a longer cached table,
\* which are not what a fresh query with that limit returns.
C6_Witness ==
  /\ last.kind = "returned"
  /\ Truthy(last.limit)
  /\ last.source = "cache"
  /\ cache.exists
  /\ cache.frame.height > last.limit[1]
  /\ Len(last.df.rows) = last.limit[1]
  /\ last.df # FreshTable(warehouse, last.limit)

\* C7: a call with use_cache = false neither reads nor writes the cache
\* file: its result is the warehouse's, and the file's existence and
\* content are the same after the call as before.
C7_DisabledCacheUntouched ==
  [][(IsCall /\ ~last'.use_cache) =>
       /\ cache' = cache
       /\ last'.source = "warehouse"
       /\ last'.kind = "returned" => last'.df = FreshTable(warehouse, last'.limit)]_vars

\* A call with use_cache = false returned while a readable cache file with
\* another content existed.
C7_Witness ==
  /\ last.kind = "returned"
  /\ ~last.use_cache
  /\ last.source = "warehouse"
  /\ cache.exists
  /\ cache.footer
  /\ last.df # CachedTable(cache, last.limit)

C9_FailureLeavesCacheAlone ==
  [][(IsCall /\ last'.kind = "raised") =>
       /\ last'.df = NoTable
       /\ cache' = cache]_vars

\* C28: once the cache file exists, no call of extract_delivery_data,
\* whatever its limit and use_cache and whether it returns or raises,
\* changes the file.
C28_ExistingCacheNeverModified ==
  [][cache.exists => cache' = cache]_vars

\* A call without cache and without limit returned, from the warehouse, a
\* table other than the one in the cache file, and the file is still there.
C28_Witness ==
  /\ cache.exists
  /\ cache.footer
  /\ last.kind = "returned"
  /\ last.source = "warehouse"
  /\ ~last.use_cache
  /\ last.limit = NULL
  /\ FromPandas(last.df) # cache.frame

(* ------------------- claims about the pipeline ------------------------ *)

\* C12: whatever the statuses of the 27 stage results, the summary's
\* pipeline_status is SUCCESS when no result is failed, PARTIAL_SUCCESS
\* when at least one is failed and at least one succeeded (success,
\* completed, or warning, which the summary counts as succeeded), and
\* FAILURE when none succeeded.
C12_PipelineStatusFromStatuses ==
  summ.pc \in {"email", "return", "returned"} =>
    LET failed == summ.function_details["failed"]
        succeeded == summ.function_details["success"]
                       + summ.function_details["completed"]
                       + summ.function_details["warning"]
    IN  /\ failed = 0 => summ.pipeline_status = "SUCCESS"
        /\ (failed >= 1 /\ succeeded >= 1) => summ.pipeline_status = "PARTIAL_SUCCESS"
        /\ succeeded = 0 => summ.pipeline_status = "FAILURE"

\* The summary returned PARTIAL_SUCCESS for results of all four statuses.
C12_Witness ==
  /\ summ.pc = "returned"
  /\ summ.pipeline_status = "PARTIAL_SUCCESS"
  /\ \A st \in Statuses : summ.function_details[st] >= 1

\* C13: in a run, every stage whose subprocess (meltano, dbt) exited
\* non-zero returned a record with status "failed" carrying the tool's
\* stderr: it neither raised nor returned another status.
C13_NonZeroExitIsFailedResult ==
  \A s \in Stages :
    results[s].tool = "nonzero" =>
      /\ results[s].state = "returned"
      /\ results[s].status = "failed"
      /\ results[s].stderr

\* C14: every record the summary consumes has a status among success,
\* failed, warning and a table_name; a failed one also has error and
\* failure_type.
C14_ResultRecordShape ==
  summ.pc \notin {"pending", "skipped"} =>
    \A s \in Stages :
      /\ results[s].status \in {"success", "failed", "warning"}
      /\ "table_name" \in results[s].keys
      /\ results[s].status = "failed" =>
            {"error", "failure_type"} \subseteq results[s].keys

\* C15: in every run the summary runs: once Dagster is past the summary
\* asset, the summary was started, not skipped.
C15_SummaryAlwaysRuns ==
  nxt > Len(StageOrder) + 1 => summ.pc # "skipped"

\* C16: a stage that ran after a stage it depends on returned a failed
\* record started no external tool and returned a failed record itself,
\* and a stage none of whose dependencies failed, raised or was skipped
\* is run.
C16_FailedInputHaltsStage ==
  \A s \in Stages :
    results[s].state # "pending" =>
      /\ (\E d \in Deps(s) : results[d].status = "failed") =>
            /\ results[s].tool = "none"
            /\ results[s].state = "returned"
            /\ results[s].status = "failed"
      /\ (\A d \in Deps(s) : results[d].state = "returned"
                                /\ results[d].status # "failed") =>
            results[s].tool # "none"

\* C17: whatever sending the notification comes to, the summary returns a
\* record with status "success" and the pipeline_status of its tally.
C17_EmailFailureNeverFailsRun ==
  /\ summ.pc = "return" => summ.email_result \in {EmailResult(o) : o \in EmailOutcomes}
  /\ summ.pc = "returned" =>
       /\ Len(summ.ret) = 1
       /\ summ.ret[1].status = "success"
       /\ summ.ret[1].pipeline_status =
            PipelineStatus(summ.successful_functions, summ.failed_functions)
       /\ summ.ret[1].email_sent = summ.email_result

\* The summary returned after the notification failed, with failed stages.
C17_Witness ==
  /\ summ.pc = "returned"
  /\ summ.email_result # EmailResult("sent")
  /\ summ.failed_functions >= 1
  /\ summ.ret[1].pipeline_status = "PARTIAL_SUCCESS"

\* C30: whatever statuses, of those a stage can return, the 27 results
\* have, every result analysed so far is tallied once, as successful or as
\* failed; after the loop successful_functions + failed_functions is
\* total_functions, and a summary with no successful function is not
\* SUCCESS.
C30_EveryResultTalliedOnce ==
  /\ summ.pc = "analyse" =>
       summ.successful_functions + summ.failed_functions = summ.idx - 1
  /\ summ.pc \in {"email", "return", "returned"} =>
       /\ summ.successful_functions + summ.failed_functions = Len(StageOrder)
       /\ summ.failed_functions = summ.function_details["failed"]
       /\ summ.successful_functions = 0 => summ.pipeline_status # "SUCCESS"

\* The summary of 27 failed results returned FAILURE.
C30_Witness ==
  /\ summ.pc = "returned"
  /\ summ.successful_functions = 0
  /\ summ.failed_functions = Len(StageOrder)
  /\ summ.pipeline_status = "FAILURE"

\* C24: a stage whose subprocess timed out returned a failed record, and
\* the failure tag of that record is neither the tag of a non-zero exit
\* code nor a tag that the stage gives to another exception.  (Every stage
\* calls subprocess.run once, outside any loop: a stage has one tool
\* outcome.)
C24_TimeoutTaggedDistinctly ==
  results # <<>> =>
    \A s \in Stages :
      results[s].tool = "timeout" =>
        /\ results[s].state = "returned"
        /\ results[s].status = "failed"
        /\ results[s].failure_type \notin
             {"none", StageBody(s, results, "nonzero").failure_type,
              StageBody(s, results, "exception").failure_type}

C18_RankedTablesHaveSupport ==
  LET Supported(table, col, min_orders) ==
        \A r \in Range(table) :
          /\ r.Order_Count = RowsIn(sla_df, GroupKinds(col, r.key))
          /\ r.Order_Count >= min_orders
  IN  /\ analysis_results # <<>> /\ analysis_results.geographic # NULL =>
           /\ Supported(analysis_results.geographic[1].state_analysis,
                        "customer_state", 100)
           /\ Supported(analysis_results.geographic[1].distance_analysis,
                        "distance_bin", 50)
      /\ analysis_results # <<>> /\ analysis_results.product # NULL =>
           Supported(analysis_results.product[1].category_analysis,
                     "product_category_name_english", 100)
      /\ analysis_results # <<>> /\ analysis_results.price # NULL =>
           Supported(analysis_results.price[1].price_analysis, "price_bin", 10)

\* The geographic analysis of a table with 5 orders in AC and at least 100
\* in SP ranked SP alone.
C18_Witness ==
  /\ analysis_results # <<>>
  /\ analysis_results.geographic # NULL
  /\ RowsIn(sla_df, GroupKinds("customer_state", "AC")) = 5
  /\ {r.key : r \in Range(analysis_results.geographic[1].state_analysis)} = {"SP"}

\* C19: no call of an analyzer method raises: on a table without rows an
\* analysis returns an empty result, and on a table whose aggregate is
\* empty after the support filter the analysis and the summary complete.
C19_EmptyResultsNeverRaise ==
  /\ acall.kind # "raised"
  /\ (acall.kind = "returned" /\ Empty(sla_df)) => acall.value = NULL

\* C23: the day that perform_temporal_analysis reports as the worst day,
\* and the day of the temporal insight of generate_insights, has at least
\* 100 orders in the table.
C23_WorstDayHasSupport ==
  LET DayCount(table, day) ==
        (CHOOSE r \in Range(table) : r.key = day).order_id
  IN  /\ (analysis_results # <<>> /\ analysis_results.temporal # NULL) =>
            DayCount(analysis_results.temporal[1].day_of_week,
                     analysis_results.temporal[1].worst_day) >= 100
      /\ (acall.kind = "returned" /\ acall.fn = "get_comprehensive_summary") =>
            \A i \in DOMAIN acall.value[1].insights :
              acall.value[1].insights[i].insight = "Temporal pattern" =>
                DayCount(analysis_results.temporal[1].day_of_week,
                         acall.value[1].insights[i].worst_day) >= 100

(* ------------------- claims about the k-means bins -------------------- *)

\* C20: when a plot bins by k-means, whatever ids k-means gave the
\* clusters, the cluster with the i-th smallest centre has the i-th label
\* of Very Low < Low < Medium < High < Very High (Very Short .. Very Long
\* for distance): a cluster of smaller centre has the earlier label, and
\* every label goes to one cluster.
C20_LabelsAscendWithCentres ==
  (cluster_map # <<>> /\ cluster_map.clustering) =>
    LET LabelRank(id) ==
          CHOOSE i \in 1..5 : cluster_map.labels[i] = cluster_map.map[id]
    IN  /\ cluster_map.labels \in {PriceClusterLabels, DistanceClusterLabels}
        /\ \A a, b \in 0..4 :
             /\ centers[a] < centers[b] => LabelRank(a) < LabelRank(b)
             /\ a # b => cluster_map.map[a] # cluster_map.map[b]
        /\ \A a \in 0..4 :
             /\ LabelRank(a) > Cardinality({b \in 0..4 : centers[b] < centers[a]})
             /\ LabelRank(a) <= Cardinality({b \in 0..4 : centers[b] <= centers[a]})

\* Prices were binned by clusters whose centres are all different and
\* descend with the cluster id.
C20_Witness ==
  /\ cluster_map # <<>>
  /\ cluster_map.clustering
  /\ cluster_map.column = "price"
  /\ \A a, b \in 0..4 : a < b => centers[a] > centers[b]
  /\ cluster_map.map[0] = "Very High"
  /\ cluster_map.map[4] = "Very Low"

C22_DeleteOnlyWhenConfirmed ==
  [][/\ (dataset.exists /\ ~dataset'.exists) =>
          /\ dcall'.kind = "returned"
          /\ ~dcall'.dry_run
          /\ dcall'.confirmation = "DELETE"
          /\ dcall'.fault = "none"
     /\ (dcall' # dcall /\ (dcall'.dry_run \/ dcall'.confirmation # "DELETE"
                             \/ dcall'.fault # "none" \/ dcall'.kind # "returned")) =>
          dataset' = dataset]_vars

\* A call without dry_run, confirmed with DELETE, deleted the dataset.
C22_Witness ==
  /\ dcall.kind = "returned"
  /\ ~dcall.dry_run
  /\ dcall.confirmation = "DELETE"
  /\ dcall.value
  /\ dataset = NoDataset

(* ------------------- claims about the migration ---------------------- *)

\* C29: a step of the migration deletes a date-suffixed table that holds
\* rows only when the clean table of the base name holds rows.
C29_PopulatedCopyNeverLost ==
  [][\A dt \in DateTableSet :
       (Populated(raw_tables[dt]) /\ raw_tables'[dt] = NULL) =>
         Populated(raw_tables.clean)]_vars

(* ------------------- claims about the reconciler ---------------------- *)

\* C1: after adjust_timestamps_and_durations, every record whose approval
\* and carrier-handoff timestamps are both non-null has
\* adjusted_approved_at <= adjusted_carrier_date.
C1_ApprovedNotAfterCarrier ==
  (/\ rpc = "adjusted"
   /\ notnull(rec.order_approved_at)
   /\ notnull(rec.order_delivered_carrier_date))
  => rec.adjusted_approved_at[1] <= rec.adjusted_carrier_date[1]

C3_DurationsNonNegative ==
  rpc = "adjusted" =>
    /\ notnull(rec.handling_days) => rec.handling_days[1] >= 0
    /\ notnull(rec.in_transit_days) => rec.in_transit_days[1] >= 0
    /\ notnull(rec.total_delivery_days) => rec.total_delivery_days[1] >= 0

\* C4: a record with approval five days and carrier handoff three days after
\* the purchase comes out with the approval clamped to the carrier handoff
\* and approval_days = 3.
C4_ApprovalDaysFromClamped ==
  (/\ rpc = "adjusted"
   /\ rec.order_approved_at = Some(rec.order_purchase_timestamp[1] + Days(5))
   /\ rec.order_delivered_carrier_date = Some(rec.order_purchase_timestamp[1] + Days(3)))
  => /\ rec.adjusted_approved_at = Some(rec.order_purchase_timestamp[1] + Days(3))
     /\ rec.approval_days = Some(3)

\* C10: in the returned table every record with non-null edd_delta_days has
\* the performance_category of its edd_delta_days: <= -3 very_early,
\* -3 < x <= 0 on_time, 0 < x <= 7 late, > 7 very_late.
C10_CategoryAgreesWithDelta ==
  (rpc = "adjusted" /\ notnull(rec.edd_delta_days)) =>
    LET x == rec.edd_delta_days[1]
    IN  rec.performance_category =
          IF x <= -3 THEN "very_early"
          ELSE IF x <= 0 THEN "on_time"
          ELSE IF x <= 7 THEN "late"
          ELSE "very_late"

\* C11: in the reconciler, when either timestamp of a comparison is missing
\* the pair is not clamped (the corrected timestamp is the raw one) and the
\* duration computed from the pair is null.
C11_MissingTimestampNoClampNullDuration ==
  rpc = "adjusted" =>
    /\ (rec.order_delivered_carrier_date = NULL
        \/ rec.order_delivered_customer_date = NULL)
       => /\ rec.adjusted_carrier_date = rec.order_delivered_carrier_date
          /\ rec.in_transit_days = NULL
    /\ (rec.order_approved_at = NULL \/ rec.order_delivered_carrier_date = NULL)
       => /\ rec.adjusted_approved_at = rec.order_approved_at
          /\ rec.handling_days = NULL

\* A reconciled record without approval timestamp whose carrier handoff is
\* present: the approval stays missing and handling_days is null.
C11_Witness ==
  /\ rpc = "adjusted"
  /\ rec.order_approved_at = NULL
  /\ notnull(rec.order_delivered_carrier_date)
  /\ rec.adjusted_approved_at = NULL
  /\ rec.handling_days = NULL
  /\ notnull(rec.in_transit_days)

\* C26: in the returned table every record with non-null edd_delta_days has
\* early_days = max(0, -edd_delta_days) and days_late_to_edd =
\* max(0, edd_delta_days).
C26_MarginsAgreeWithDelta ==
  (rpc = "adjusted" /\ notnull(rec.edd_delta_days)) =>
    LET x == rec.edd_delta_days[1]
    IN  /\ rec.early_days = Some(IF 0 - x > 0 THEN 0 - x ELSE 0)
        /\ rec.days_late_to_edd = Some(IF x > 0 THEN x ELSE 0)

====
